---- MODULE Spec2Model ----
(***************************************************************************)
(* Model of pytorch/dataset_class.py: DatasetGenerator, a torch Dataset    *)
(* that expands a label table with virtual "augmented" identifiers and     *)
(* loads, slices and augments one volume per item access.                  *)
(*                                                                         *)
(* Python strings are sequences of one-character strings, so that          *)
(* str.split('_'), '_'.join, + and the substring test `x in s` are         *)
(* computed as Python computes them.  numpy arrays are a shape and the     *)
(* C-order flattened data; the transformations whose numeric result comes  *)
(* from a library (rotate, random_noise, deform_random_grid) are recorded  *)
(* in the array's `ops` log with the random draw they used.                *)
(*                                                                         *)
(* labels is a pandas Series and data_indices a pandas Index (line 60      *)
(* keeps the value Index.append returns); transform and target_transform   *)
(* keep their default, None.  A numpy Generator is its seed and the number *)
(* of draws taken from it; the volumes on disk have RawSlices leading      *)
(* slices of shape Dim, a scaled-down (70, 86, 86).  An exception ends the *)
(* access: it is kept in the access state, which later steps pass on.      *)
(***************************************************************************)
EXTENDS Integers, Sequences, FiniteSets, TLC

VARIABLES args, ctor, self1, self2, out1, out2

vars == <<args, ctor, self1, self2, out1, out2>>

(***************************************************************************)
(* Bounds of the model                                                     *)
(***************************************************************************)
MaxRows == 2
MaxChannels == 5
MaxMods == 3
\* the draws followed from the noise generator and from the rotation generator
MaxNoiseDraws == 10
MaxRotateDraws == 2

(***************************************************************************)
(* Python str                                                              *)
(***************************************************************************)
s_flip == <<"f", "l", "i", "p">>
s_rotate == <<"r", "o", "t", "a", "t", "e">>
s_noise == <<"n", "o", "i", "s", "e">>
s_deform == <<"d", "e", "f", "o", "r", "m">>
s_npy == <<".", "n", "p", "y">>
s_us == <<"_">>

\* index of the first '_' of s, 0 when there is none
FirstSep(s) ==
    IF \E i \in 1..Len(s) : s[i] = "_"
    THEN CHOOSE i \in 1..Len(s) : s[i] = "_" /\ \A j \in 1..(i - 1) : s[j] # "_"
    ELSE 0

RECURSIVE Split(_)
\* s.split('_')
Split(s) ==
    IF FirstSep(s) = 0 THEN <<s>>
    ELSE <<SubSeq(s, 1, FirstSep(s) - 1)>> \o Split(SubSeq(s, FirstSep(s) + 1, Len(s)))

RECURSIVE Join(_)
\* '_'.join(segs)
Join(segs) ==
    IF Len(segs) = 0 THEN <<>>
    ELSE IF Len(segs) = 1 THEN segs[1]
    ELSE segs[1] \o s_us \o Join(Tail(segs))

\* sub in s, for strings
Contains(sub, s) ==
    \E i \in 0..(Len(s) - Len(sub)) : SubSeq(s, i + 1, i + Len(sub)) = sub

\* x in tup, for a tuple
InTuple(x, tup) == \E i \in 1..Len(tup) : tup[i] = x

Last(seq) == seq[Len(seq)]

(***************************************************************************)
(* Inputs: identifiers, labels, modalities, augmentation kinds, seeds      *)
(***************************************************************************)
id_P001 == <<"P", "0", "0", "1">>
id_A_1 == <<"A", "_", "1">>
id_B_noise == <<"B", "_", "n", "o", "i", "s", "e">>
id_C_3_x == <<"C", "_", "3", "_", "x">>

\* the patients with files on disk, in a fixed order
IdUniverse == <<id_P001, id_A_1, id_B_noise, id_C_3_x>>

LabelOf(id) ==
    CASE id = id_P001 -> 0
      [] id = id_A_1 -> 1
      [] id = id_B_noise -> 0
      [] OTHER -> 1

ModUniverse == << <<"F", "L", "A", "I", "R">>, <<"T", "1">>, <<"T", "1", "G", "D">>,
                  <<"T", "2">>, <<"D", "W", "I">> >>

Min(a, b) == IF a < b THEN a ELSE b

\* modality=...: the first n modalities, n in 1..MaxMods
ModalityChoices == { SubSeq(ModUniverse, 1, n) : n \in 1..Min(MaxMods, Len(ModUniverse)) }

\* labels=...: a Series, rows (identifier, label) in order
RowOf(id) == [id |-> id, label |-> LabelOf(id)]

\* the tables of 1..MaxRows consecutive patients
LabelTables ==
    { [i \in 1..n |-> RowOf(IdUniverse[first + i - 1])] :
        <<first, n>> \in { w \in (1..Len(IdUniverse)) \X (1..MaxRows) :
                             w[1] + w[2] - 1 <= Len(IdUniverse) } }

\* augment_types=...
AugmentTypeChoices ==
    { <<s_noise, s_flip, s_rotate, s_deform>>,
      <<s_flip>>,
      <<s_rotate, s_noise>>,
      <<s_rotate \o s_noise>>,
      <<s_flip, s_flip>> }

Seeds == {42, 7}

\* what numpy's global generator, which nothing here seeds, may hand out
GlobalDraws == {0, 1}

\* OS entropy, which default_rng reads only when it is given no seed
Entropy == {3, 5}

(***************************************************************************)
(* numpy.random.Generator: the seed of its stream and the number of draws  *)
(* taken from it.  Every draw advances it and it never comes back to a     *)
(* state it has been in.                                                   *)
(***************************************************************************)
rng_step(s) == [s EXCEPT !.drawn = @ + 1]

\* default_rng() with the seed not passed on
default_rng_unseeded(seed, entropy) == [seed |-> entropy, drawn |-> 0]

\* np.random.default_rng(seed)
default_rng(seed, entropy) == [seed |-> seed, drawn |-> 0]

RECURSIVE rng_advance(_, _)
\* the state after n draws
rng_advance(s, n) == IF n = 0 THEN s ELSE rng_advance(rng_step(s), n - 1)

\* rng.integers(-180, high=180): the value the next draw from state s gives
rng_integer(s) == -180 + ((37 * s.seed + 101 * s.drawn + 11) % 360)

(***************************************************************************)
(* numpy arrays                                                            *)
(***************************************************************************)
RECURSIVE Prod(_)
Prod(shape) == IF Len(shape) = 0 THEN 1 ELSE Head(shape) * Prod(Tail(shape))

NoArr == [shape |-> <<>>, data |-> <<>>, ops |-> <<>>]

\* spatial shape of every stored volume, and the default of dim=
Dim == <<1, 1, 2>>

\* leading axis of a stored array: three sub-regions, whole tumor, a fifth
RawSlices == 5

\* <identifier>_<modality>.npy
FileName(id, mod) == id \o s_us \o mod \o s_npy

DiskPairs == { <<i, m>> : i \in 1..Len(IdUniverse), m \in 1..Len(ModUniverse) }

\* content of the file of patient i, modality m: voxel (s, p) is 1000 i + 100 m + 10 s + p
RawArray(i, m) ==
    [shape |-> <<RawSlices>> \o Dim,
     data |-> [k \in 1..(RawSlices * Prod(Dim)) |->
                 1000 * i + 100 * m + 10 * ((k - 1) \div Prod(Dim)) + ((k - 1) % Prod(Dim))],
     ops |-> <<>>]

\* the data directory: one file per (patient, modality)
DiskNames == { FileName(IdUniverse[p[1]], ModUniverse[p[2]]) : p \in DiskPairs }

Disk ==
    [name \in DiskNames |->
        LET p == CHOOSE q \in DiskPairs : FileName(IdUniverse[q[1]], ModUniverse[q[2]]) = name
        IN  RawArray(p[1], p[2])]

IsErr(st) == st.err # "none"

Raise(st, e) == [st EXCEPT !.err = e, !.arr = NoArr]

\* the state of one item access: the array in hand, the exception raised if any, the
\* array as the channel selection left it, the Augmentor calls made (each with the
\* value it drew), the files np.load was asked for, and the two generators
Start(self) ==
    [err |-> "none", arr |-> NoArr, sel |-> NoArr, calls |-> <<>>, io |-> <<>>,
     rng_noise |-> self.rng_noise, rng_rotate |-> self.rng_rotate]

\* np.load(os.path.join(data_dir, name))
np_load(st, name) ==
    IF IsErr(st) THEN st
    ELSE IF name \in DiskNames
         THEN [st EXCEPT !.io = Append(@, name), !.arr = Disk[name]]
         ELSE [Raise(st, "FileNotFoundError") EXCEPT !.io = Append(@, name)]

SliceSize(a) == Prod(Tail(a.shape))

\* a[k], k counted from 0 (the caller checks the bound)
Index0(a, k) ==
    [shape |-> Tail(a.shape),
     data |-> SubSeq(a.data, k * SliceSize(a) + 1, (k + 1) * SliceSize(a)),
     ops |-> a.ops]

RECURSIVE TakeData(_, _)
TakeData(a, idxs) ==
    IF Len(idxs) = 0 THEN <<>>
    ELSE Index0(a, Head(idxs)).data \o TakeData(a, Tail(idxs))

\* a[[i, j, ...]] and a[0:n]: the leading slices idxs, in that order
Take(a, idxs) ==
    [shape |-> <<Len(idxs)>> \o Tail(a.shape), data |-> TakeData(a, idxs), ops |-> a.ops]

RECURSIVE FlipIndex(_, _, _)
\* the C-order position that position p (from 0) of an array of this shape takes its
\* value from when the axes in `axes` are reversed
FlipIndex(p, shape, axes) ==
    IF Len(shape) = 0 THEN 0
    ELSE LET stride == Prod(Tail(shape))
             i == p \div stride
             j == IF 0 \in axes THEN Head(shape) - 1 - i ELSE i
         IN  j * stride + FlipIndex(p % stride, Tail(shape), { a - 1 : a \in axes })

\* np.flip(a, axis=axes).copy()
np_flip(a, axes) ==
    [a EXCEPT !.data = [k \in 1..Len(a.data) |-> a.data[FlipIndex(k - 1, a.shape, axes) + 1]]]

\* np.reshape(a, shape), C order
CanReshape(a, shape) == Prod(shape) = Prod(a.shape)

np_reshape(a, shape) == [a EXCEPT !.shape = shape]

\* np.expand_dims(a, axis=0)
expand_dims0(a) == [a EXCEPT !.shape = <<1>> \o a.shape]

Logged(a, op, draw, on) == [a EXCEPT !.ops = Append(@, [op |-> op, draw |-> draw, on |-> on])]

Call(op, draw) == [op |-> op, draw |-> draw]

(***************************************************************************)
(* Augmentor                                                               *)
(***************************************************************************)
apply_flip(st, n_channels) ==
    IF IsErr(st) THEN st
    ELSE LET axes == IF n_channels = 1 THEN {0, 1, 2} ELSE {1, 2, 3}
             called == [st EXCEPT !.calls = Append(@, Call("flip", <<>>))]
         IN  IF \E a \in axes : a >= Len(st.arr.shape)
             THEN Raise(called, "AxisError")
             ELSE [called EXCEPT !.arr = np_flip(st.arr, axes)]

\* the number of leading slices apply_rotation rotates one by one
RotatedSlices(n_channels) ==
    CASE n_channels = 4 -> 4
      [] n_channels = 5 -> 5
      [] OTHER -> 3

\* the rotation with the angle drawn from the noise generator
apply_rotation_shared_rng(st, n_channels) ==
    IF IsErr(st) THEN st
    ELSE LET angle == rng_integer(st.rng_noise)
             called == [st EXCEPT !.calls = Append(@, Call("rotate", <<angle>>)),
                                  !.rng_noise = rng_step(st.rng_noise)]
         IN  IF n_channels = 1
             THEN [called EXCEPT !.arr = Logged(st.arr, "rotate", angle, {-1})]
             ELSE IF Len(st.arr.shape) # 4 \/ st.arr.shape[1] < RotatedSlices(n_channels)
                  THEN Raise(called, "IndexError")
                  ELSE [called EXCEPT !.arr = Logged(st.arr, "rotate", angle,
                                                     0..(RotatedSlices(n_channels) - 1))]

apply_rotation(st, n_channels) ==
    IF IsErr(st) THEN st
    ELSE LET angle == rng_integer(st.rng_rotate)
             called == [st EXCEPT !.calls = Append(@, Call("rotate", <<angle>>)),
                                  !.rng_rotate = rng_step(st.rng_rotate)]
         IN  IF n_channels = 1
             THEN [called EXCEPT !.arr = Logged(st.arr, "rotate", angle, {-1})]
             ELSE IF Len(st.arr.shape) # 4 \/ st.arr.shape[1] < RotatedSlices(n_channels)
                  THEN Raise(called, "IndexError")
                  ELSE [called EXCEPT !.arr = Logged(st.arr, "rotate", angle,
                                                     0..(RotatedSlices(n_channels) - 1))]

\* random_noise(arr, mode='gaussian', seed=self.rng_noise): one normal draw per element
apply_noise(st) ==
    IF IsErr(st) THEN st
    ELSE [st EXCEPT !.calls = Append(@, Call("noise", <<st.rng_noise>>)),
                    !.arr = Logged(st.arr, "noise", st.rng_noise, {-1}),
                    !.rng_noise = rng_advance(st.rng_noise, Prod(st.arr.shape))]

\* elasticdeform.deform_random_grid draws from numpy's global generator: g
apply_deformation(st, n_channels, g) ==
    IF IsErr(st) THEN st
    ELSE LET axes == IF n_channels = 1 THEN {0, 1, 2} ELSE {1, 2, 3}
             called == [st EXCEPT !.calls = Append(@, Call("deform", <<g>>))]
         IN  IF \E a \in axes : a >= Len(st.arr.shape)
             THEN Raise(called, "ValueError")
             ELSE [called EXCEPT !.arr = Logged(st.arr, "deform", g, {-1})]

\* lines 119-128 and 160-169: the four tests on the identifier's last segment
Augment(self, st, pat_idx, g) ==
    LET aug == Last(Split(pat_idx))
        a1 == IF Contains(s_flip, aug) THEN apply_flip(st, self.n_channels) ELSE st
        a2 == IF Contains(s_rotate, aug) THEN apply_rotation(a1, self.n_channels) ELSE a1
        a3 == IF Contains(s_noise, aug) THEN apply_noise(a2) ELSE a2
        a4 == IF Contains(s_deform, aug) THEN apply_deformation(a3, self.n_channels, g) ELSE a3
    IN  IF IsErr(st) THEN st
        ELSE IF InTuple(aug, self.augment_types) THEN a4 ELSE st

(***************************************************************************)
(* Array Loader                                                            *)
(***************************************************************************)
\* lines 100-106 and 149-155: the identifier the file name is built from
Resolve(self, pat_idx) ==
    IF self.to_augment /\ Len(Split(pat_idx)) = 3
    THEN Join(SubSeq(Split(pat_idx), 1, 2))
    ELSE pat_idx

Selected(st, a) == [st EXCEPT !.arr = a, !.sel = a]

\* the selection with in_arr[[0,1,2,3]] for four channels
SelectChannels_first_four(st, n_channels) ==
    IF IsErr(st) THEN st
    ELSE IF n_channels > 1
         THEN (IF n_channels = 5 THEN Selected(st, st.arr)
               ELSE IF n_channels = 4
                    THEN Selected(st, Take(st.arr, <<0, 1, 2, 3>>))
                    ELSE Selected(st, Take(st.arr,
                                  [i \in 1..Min(3, st.arr.shape[1]) |-> i - 1])))
         ELSE Selected(st, Index0(st.arr, 3))

\* lines 109-117
SelectChannels(st, n_channels) ==
    IF IsErr(st) THEN st
    ELSE IF n_channels > 1
         THEN (IF n_channels = 5 THEN Selected(st, st.arr)
               ELSE IF n_channels = 4
                    THEN (IF st.arr.shape[1] <= 4 THEN Raise(st, "IndexError")
                          ELSE Selected(st, Take(st.arr, <<0, 1, 2, 4>>)))
                    ELSE Selected(st, Take(st.arr,
                                  [i \in 1..Min(3, st.arr.shape[1]) |-> i - 1])))
         ELSE (IF st.arr.shape[1] <= 3 THEN Raise(st, "IndexError")
               ELSE Selected(st, Index0(st.arr, 3)))

\* lines 130-134
Sectionate(self, st) ==
    IF IsErr(st) \/ ~self.to_sectionate THEN st
    ELSE LET shape == IF self.n_channels = 1 THEN self.dim
                      ELSE self.dim \o <<self.n_channels>>
         IN  IF CanReshape(st.arr, shape)
             THEN [st EXCEPT !.arr = np_reshape(st.arr, shape)]
             ELSE Raise(st, "ValueError")

get_pat_array(self, pat_idx, g) ==
    LET loaded == np_load(Start(self), FileName(Resolve(self, pat_idx), self.modality[1]))
        chosen == SelectChannels(loaded, self.n_channels)
    IN  Sectionate(self, Augment(self, chosen, pat_idx, g))

RECURSIVE LoadModalities(_, _, _, _, _)
\* lines 146-158: the loop from modality number imod on (from 1); mod_arr holds the
\* slices assigned so far
LoadModalities(self, st, mod_arr, pat_idx, imod) ==
    IF IsErr(st) THEN st
    ELSE IF imod > Len(self.modality)
    THEN Selected(st, [shape |-> <<Len(self.modality)>> \o self.dim,
                       data |-> mod_arr, ops |-> <<>>])
    ELSE LET in_st == np_load(st, FileName(Resolve(self, pat_idx), self.modality[imod]))
         IN  IF IsErr(in_st) THEN in_st
             ELSE IF in_st.arr.shape[1] <= 3 THEN Raise(in_st, "IndexError")
             ELSE IF Tail(in_st.arr.shape) # self.dim THEN Raise(in_st, "ValueError")
             ELSE LoadModalities(self, in_st, mod_arr \o Index0(in_st.arr, 3).data,
                                 pat_idx, imod + 1)

get_pat_mod_array(self, pat_idx, g) ==
    Augment(self, LoadModalities(self, Start(self), <<>>, pat_idx, 1), pat_idx, g)

(***************************************************************************)
(* Construction                                                            *)
(***************************************************************************)
\* lines 57-58: a copy of the label table with '_' + aug appended to every identifier
AugmentBlock(labels, aug) ==
    [i \in 1..Len(labels) |-> [id |-> labels[i].id \o s_us \o aug, label |-> labels[i].label]]

RECURSIVE DictKeys(_)
\* the keys of augment_idx after the loop: each kind once, in order of first insertion
DictKeys(kinds) ==
    IF Len(kinds) = 0 THEN <<>>
    ELSE LET front == DictKeys(SubSeq(kinds, 1, Len(kinds) - 1))
         IN  IF InTuple(Last(kinds), front) THEN front ELSE Append(front, Last(kinds))

RECURSIVE ConcatBlocks(_, _)
ConcatBlocks(labels, keys) ==
    IF Len(keys) = 0 THEN <<>>
    ELSE AugmentBlock(labels, Head(keys)) \o ConcatBlocks(labels, Tail(keys))

\* pd.concat of the augmented blocks alone
ExpandLabels_blocks_only(labels, kinds) == ConcatBlocks(labels, DictKeys(kinds))

\* line 62: pd.concat([self.labels, *augment_idx.values()])
ExpandLabels(labels, kinds) == labels \o ConcatBlocks(labels, DictKeys(kinds))

RECURSIVE ExpandIndices(_, _, _)
\* line 60, once per element of augment_types
ExpandIndices(data_indices, labels, kinds) ==
    IF Len(kinds) = 0 THEN data_indices
    ELSE ExpandIndices(data_indices \o [i \in 1..Len(labels) |-> labels[i].id \o s_us \o Head(kinds)],
                       labels, Tail(kinds))

\* lines 17-36
Attributes(a, entropy) ==
    [labels |-> a.labels,
     data_indices |-> a.data_indices,
     n_channels |-> IF Len(a.modality) > 1 THEN Len(a.modality) ELSE a.n_channels,
     dim |-> a.dim,
     rng_noise |-> default_rng(a.seed, entropy),
     rng_rotate |-> default_rng(a.seed, entropy),
     modality |-> a.modality,
     to_augment |-> a.to_augment,
     augment_types |-> a.augment_types,
     to_encode |-> a.to_encode,
     radiomics |-> "None",
     to_sectionate |-> a.to_sectionate]

\* lines 38-45: line 44 binds self.radiomics to the feature table, then line 45 raises:
\* StandardScaler is a name the module never binds
CtorOutcome(a) == IF a.to_encode THEN "NameError" ELSE "ok"

\* __init__: the attributes when it returns, or when it raises
Construct(a, entropy) ==
    LET s == Attributes(a, entropy)
    IN  IF CtorOutcome(a) # "ok" THEN [s EXCEPT !.radiomics = "FeatureTable"]
        ELSE IF ~a.to_augment THEN s
        ELSE [s EXCEPT !.data_indices = ExpandIndices(s.data_indices, s.labels, s.augment_types),
                       !.labels = ExpandLabels(s.labels, s.augment_types)]

(***************************************************************************)
(* Access Entry Point                                                      *)
(***************************************************************************)
NoOut ==
    [op |-> "none", idx |-> -1, err |-> "none", value |-> -1, pat_idx |-> <<>>,
     label |-> <<>>, tensor |-> NoArr, loaded |-> NoArr, loader_err |-> "none",
     sel |-> NoArr, calls |-> <<>>, io |-> <<>>]

\* __len__
len(self) == Len(self.labels)

\* self.labels.loc[pat_idx]: the label of every row carrying that identifier
Loc(labels, pat_idx) ==
    LET RECURSIVE Rows(_)
        Rows(i) == IF i > Len(labels) THEN <<>>
                   ELSE (IF labels[i].id = pat_idx THEN <<labels[i].label>> ELSE <<>>)
                        \o Rows(i + 1)
    IN  Rows(1)

\* lines 81-89, on what the loader returned
Finish(self, st) ==
    IF IsErr(st) THEN st
    ELSE IF self.to_sectionate /\ ~CanReshape(st.arr, self.dim) THEN Raise(st, "ValueError")
    ELSE LET r == IF self.to_sectionate THEN np_reshape(st.arr, self.dim) ELSE st.arr
         IN  [st EXCEPT !.arr = IF self.n_channels = 1 THEN expand_dims0(r) ELSE r]

\* lines 72-79: the access state when the loader returns or raises
Loader(self, idx, g) ==
    LET pat_idx == self.labels[idx + 1].id
    IN  IF Len(self.modality) < 2 THEN get_pat_array(self, pat_idx, g)
        ELSE get_pat_mod_array(self, pat_idx, g)

\* __getitem__(idx): the final access state
getitem(self, idx, g) == Finish(self, Loader(self, idx, g))

\* what __getitem__(idx) did: the tensor and label it returned or the exception it
\* raised, and on the way what the loader returned, what the channel selection
\* produced, the Augmentor calls and the files asked for
Returned(self, idx, ld, st) ==
    [op |-> "getitem", idx |-> idx, err |-> st.err, value |-> -1,
     pat_idx |-> self.labels[idx + 1].id,
     label |-> IF IsErr(st) THEN <<>> ELSE Loc(self.labels, self.labels[idx + 1].id),
     tensor |-> st.arr, loaded |-> ld.arr, loader_err |-> ld.err,
     sel |-> st.sel, calls |-> st.calls, io |-> st.io]

\* the instance after the access: the generators are where the access left them
After(self, st) == [self EXCEPT !.rng_noise = st.rng_noise, !.rng_rotate = st.rng_rotate]

\* the accesses explored: those that leave each generator within the bound on its draws
WithinDraws(st) ==
    /\ st.rng_noise.drawn <= MaxNoiseDraws
    /\ st.rng_rotate.drawn <= MaxRotateDraws

\* the values numpy's global generator may hand to this access: it is read by
\* apply_deformation alone
DrawsFor(self, idx) ==
    IF Contains(s_deform, Last(Split(self.labels[idx + 1].id))) THEN GlobalDraws ELSE {0}

\* n_channels=...: a count of channels; with several modalities line 21 overrides it
ChannelArgs(modality) == IF Len(modality) > 1 THEN {1, 3} ELSE 1..MaxChannels

\* the constructor's arguments
ArgsOver(seeds) ==
    { [labels |-> labels,
       data_indices |-> [i \in 1..Len(labels) |-> labels[i].id],
       modality |-> modality, dim |-> Dim, n_channels |-> n,
       to_augment |-> aug, to_encode |-> enc, to_sectionate |-> sect,
       augment_types |-> kinds, seed |-> seed] :
        labels \in LabelTables, modality \in ModalityChoices, kinds \in AugmentTypeChoices,
        aug \in BOOLEAN, enc \in BOOLEAN, sect \in BOOLEAN, seed \in seeds,
        n \in 1..MaxChannels }

ValidArgs(a) == a.n_channels \in ChannelArgs(a.modality)

\* one instance is constructed and accessed; a second one, built from the same
\* arguments, is only accessed under PairSpec
Init ==
    \E a \in ArgsOver({42}), e1 \in Entropy :
        /\ ValidArgs(a)
        /\ args = a
        /\ ctor = CtorOutcome(a)
        /\ self1 = Construct(a, e1)
        /\ self2 = Construct(a, e1)
        /\ out1 = NoOut
        /\ out2 = NoOut

\* len(dataset)
Length ==
    /\ ctor = "ok"
    /\ out1' = [NoOut EXCEPT !.op = "len", !.value = len(self1)]
    /\ UNCHANGED <<args, ctor, self1, self2, out2>>

\* dataset[idx]
GetItem ==
    /\ ctor = "ok"
    /\ \E idx \in 0..(len(self1) - 1) :
         \E g1 \in DrawsFor(self1, idx) :
           LET ld1 == Loader(self1, idx, g1)
               st1 == Finish(self1, ld1)
           IN  /\ WithinDraws(st1)
               /\ out1' = Returned(self1, idx, ld1, st1)
               /\ self1' = After(self1, st1)
    /\ UNCHANGED <<args, ctor, self2, out2>>

Next == Length \/ GetItem

Spec == Init /\ [][Next]_vars

(***************************************************************************)
(* Two instances constructed from the same arguments (a table of one       *)
(* patient, no sectionation) and driven through the same accesses          *)
(***************************************************************************)
PairInit ==
    \E a \in ArgsOver(Seeds), e1 \in Entropy, e2 \in Entropy :
        /\ ValidArgs(a) /\ ~a.to_sectionate /\ Len(a.labels) = 1
        /\ args = a
        /\ ctor = CtorOutcome(a)
        /\ self1 = Construct(a, e1)
        /\ self2 = Construct(a, e2)
        /\ out1 = NoOut
        /\ out2 = NoOut

PairLength ==
    /\ ctor = "ok"
    /\ out1' = [NoOut EXCEPT !.op = "len", !.value = len(self1)]
    /\ out2' = [NoOut EXCEPT !.op = "len", !.value = len(self2)]
    /\ UNCHANGED <<args, ctor, self1, self2>>

PairGetItem ==
    /\ ctor = "ok"
    /\ \E idx \in 0..(len(self1) - 1) :
         \E g1 \in DrawsFor(self1, idx), g2 \in DrawsFor(self2, idx) :
           LET ld1 == Loader(self1, idx, g1)
               ld2 == Loader(self2, idx, g2)
               st1 == Finish(self1, ld1)
               st2 == Finish(self2, ld2)
           IN  /\ WithinDraws(st1) /\ WithinDraws(st2)
               /\ out1' = Returned(self1, idx, ld1, st1)
               /\ self1' = After(self1, st1)
               /\ out2' = Returned(self2, idx, ld2, st2)
               /\ self2' = After(self2, st2)
    /\ UNCHANGED <<args, ctor>>

PairNext == PairLength \/ PairGetItem

PairSpec == PairInit /\ [][PairNext]_vars

(***************************************************************************)
(* Properties                                                              *)
(***************************************************************************)
N == Len(args.labels)

Kinds == args.augment_types

Distinct(seq) == \A i, j \in 1..Len(seq) : i # j => seq[i] # seq[j]

Accessed == ctor = "ok" /\ out1.op = "getitem"

Called(out, op) == \E i \in 1..Len(out.calls) : out.calls[i].op = op

CallNames(out) == [i \in 1..Len(out.calls) |-> out.calls[i].op]

\* the values drawn by the calls of one kind during an access, in order
DrawsOf(out, op) ==
    LET RECURSIVE D(_)
        D(i) == IF i > Len(out.calls) THEN <<>>
                ELSE (IF out.calls[i].op = op THEN out.calls[i].draw ELSE <<>>) \o D(i + 1)
    IN  D(1)

\* every row of the table that carries id carries label, and there is one
MapsTo(labels, id, label) ==
    /\ Loc(labels, id) # <<>>
    /\ \A r \in 1..Len(Loc(labels, id)) : Loc(labels, id)[r] = label

\* C1: after construction with augmentation enabled and distinct kinds, the expanded
\* label table holds every original identifier I and every I_k, each with the label
\* of I, and its length, which length() returns, is original length x (1 + kinds).
C1_ExpandedTable ==
    (ctor = "ok" /\ args.to_augment /\ Distinct(Kinds)) =>
        /\ \A i \in 1..N :
              /\ MapsTo(self1.labels, args.labels[i].id, args.labels[i].label)
              /\ \A k \in 1..Len(Kinds) :
                    MapsTo(self1.labels, args.labels[i].id \o s_us \o Kinds[k],
                           args.labels[i].label)
        /\ len(self1) = N * (1 + Len(Kinds))
        /\ (out1.op = "len" => out1.value = N * (1 + Len(Kinds)))

C1_Witness ==
    /\ ctor = "ok" /\ args.to_augment /\ Distinct(Kinds)
    /\ N = 2 /\ Len(Kinds) = 4
    /\ out1.op = "len" /\ out1.value = 10

\* the identifier the claim puts at position idx (from 0) of the expanded table
IdAt(idx) ==
    IF idx < N THEN args.labels[idx + 1].id
    ELSE args.labels[(idx % N) + 1].id \o s_us \o Kinds[idx \div N]

\* the expanded table is the original block followed by one block per kind
TableOrder ==
    (ctor = "ok" /\ Distinct(Kinds)) =>
        \A idx \in 0..(len(self1) - 1) :
            /\ self1.labels[idx + 1].id = IdAt(idx)
            /\ self1.labels[idx + 1].label = args.labels[(idx % N) + 1].label

\* C2: the expanded table is the original block, then one block per kind in the
\* configured order, each in the original order; item_at(N*(j+1)+i) returns the label
\* of <i-th original id>_<kind j> and item_at(i) the label of the i-th original id.
C2_PositionalLabels ==
    /\ TableOrder
    /\ (Accessed /\ Distinct(Kinds)) =>
          /\ out1.pat_idx = IdAt(out1.idx)
          /\ out1.err = "none"
          /\ out1.label = <<args.labels[(out1.idx % N) + 1].label>>

\* the files of the real identifier behind position idx, one per modality
FilesOfReal(idx) ==
    [m \in 1..Len(args.modality) |->
        FileName(args.labels[(idx % N) + 1].id, args.modality[m])]

\* C3: item access for a virtual identifier I_k loads exactly the files <I>_<modality>
\* that access to I loads, never a file named after I_k, and access to a real
\* identifier loads that identifier's own files.
C3_VirtualResolvesToReal == Accessed => out1.io = FilesOfReal(out1.idx)

\* C4: two instances constructed from the same seed and configuration and driven
\* through the same accesses draw the same rotation angles and the same noise
\* generator outputs at every step.
C4_SameDraws ==
    ctor = "ok" =>
        /\ self1.rng_rotate = self2.rng_rotate
        /\ self1.rng_noise = self2.rng_noise
        /\ DrawsOf(out1, "rotate") = DrawsOf(out2, "rotate")
        /\ DrawsOf(out1, "noise") = DrawsOf(out2, "noise")

C4_Witness ==
    /\ Accessed /\ out2.op = "getitem"
    /\ Called(out1, "rotate") /\ Called(out1, "noise")
    /\ self1.rng_noise.drawn > 0
    /\ DrawsOf(out2, "rotate") = <<rng_integer(rng_step(default_rng(args.seed, 0)))>>

\* everything of an instance but the state of its two generators
Frozen(self) == [self EXCEPT !.rng_noise = "any", !.rng_rotate = "any"]

\* C5: length() and item_at() leave the label table, the identifier list, the feature
\* table and the configuration as they are; only the generators may change, the noise
\* generator only in an access that applies noise, the rotation generator only in one
\* that applies rotation.
C5_Frame ==
    [][ /\ Frozen(self1') = Frozen(self1)
        /\ args' = args /\ ctor' = ctor
        /\ (self1'.rng_noise # self1.rng_noise => Called(out1', "noise"))
        /\ (self1'.rng_rotate # self1.rng_rotate => Called(out1', "rotate"))
        /\ (out1'.op = "len" => self1' = self1) ]_vars

C5_Witness ==
    /\ Accessed /\ Called(out1, "noise") /\ ~Called(out1, "rotate")
    /\ self1.rng_noise.drawn = Prod(out1.sel.shape)
    /\ self1.rng_rotate = default_rng(args.seed, 0)

\* C6: with the encoding toggle enabled an item access passes the loaded and augmented
\* array through the Feature Encoder before returning; with it disabled the encoder
\* is never invoked.
C6_EncoderRuns ==
    /\ args.to_encode => (ctor = "ok" /\ (out1.op = "getitem" => Called(out1, "encode")))
    /\ (~args.to_encode /\ out1.op = "getitem") => ~Called(out1, "encode")

\* the whole-tumor slices of the files an access loaded, one after the other
RECURSIVE TumorSlices(_)
TumorSlices(io) ==
    IF Len(io) = 0 THEN <<>> ELSE Index0(Disk[Head(io)], 3).data \o TumorSlices(Tail(io))

\* C7: with two or more modalities the loader returns, for every identifier of the
\* expanded table, an array with one leading slice per modality, each taken from
\* slice 3 of that modality's file.  (Stated for the accesses whose files are all
\* found, so that what refutes it is the loader's own doing.)
C7_ModalityAxis ==
    (Accessed /\ Len(args.modality) >= 2 /\ out1.loader_err # "FileNotFoundError") =>
        /\ out1.loader_err = "none"
        /\ out1.loaded.shape[1] = Len(args.modality)
        /\ out1.sel.data = TumorSlices(out1.io)

\* a is the leading slices srcs (from 0) of raw, in that order
SlicesAre(a, raw, srcs) ==
    /\ a.shape = <<Len(srcs)>> \o Tail(raw.shape)
    /\ \A c \in 1..Len(srcs), p \in 1..SliceSize(raw) :
          a.data[(c - 1) * SliceSize(raw) + p] = raw.data[srcs[c] * SliceSize(raw) + p]

\* C8: the single-modality loader keeps, of the leading slices of the file: all of
\* them for 5 channels, {0,1,2,4} for 4, slice 3 alone with the leading axis dropped
\* for 1, and {0,1,2} for every other channel count.
C8_ChannelSelection ==
    (Accessed /\ Len(args.modality) = 1 /\ out1.io[1] \in DiskNames) =>
        LET raw == Disk[out1.io[1]]
        IN  CASE args.n_channels = 5 -> out1.sel = raw
              [] args.n_channels = 4 -> SlicesAre(out1.sel, raw, <<0, 1, 2, 4>>)
              [] args.n_channels = 1 ->
                    /\ Len(out1.sel.shape) = Len(raw.shape) - 1
                    /\ out1.sel.shape = Tail(raw.shape)
                    /\ \A p \in 1..SliceSize(raw) :
                          out1.sel.data[p] = raw.data[3 * SliceSize(raw) + p]
              [] OTHER -> SlicesAre(out1.sel, raw, <<0, 1, 2>>)

C8_Witness ==
    /\ Accessed /\ Len(args.modality) = 1 /\ args.n_channels = 4
    /\ out1.err = "none" /\ out1.sel.shape[1] = 4

\* C9: with sectionation and a single modality item_at succeeds for every identifier
\* and returns a tensor of the configured spatial dimensions, with a trailing channel
\* axis of length n_channels when n_channels > 1.  (Stated for the accesses whose
\* file is found.)
C9_Sectionated ==
    (Accessed /\ args.to_sectionate /\ Len(args.modality) = 1
       /\ out1.loader_err # "FileNotFoundError") =>
        /\ out1.err = "none"
        /\ out1.tensor.shape = IF args.n_channels > 1 THEN args.dim \o <<args.n_channels>>
                               ELSE <<1>> \o args.dim

\* the transformations whose name is a substring of aug, in the order flip, rotate,
\* noise, deform
ExpectedCalls(aug) ==
    (IF Contains(s_flip, aug) THEN <<"flip">> ELSE <<>>)
    \o (IF Contains(s_rotate, aug) THEN <<"rotate">> ELSE <<>>)
    \o (IF Contains(s_noise, aug) THEN <<"noise">> ELSE <<>>)
    \o (IF Contains(s_deform, aug) THEN <<"deform">> ELSE <<>>)

\* C10: an identifier reaches the Augmentor only when its last '_' segment matches a
\* configured kind; then flip, rotate, noise and deform are executed, in that order,
\* exactly when their name is a substring of the segment; otherwise nothing is
\* transformed and nothing is drawn.  (Stated for the accesses that get as far as
\* the routing: the array was loaded and its channels selected.)
C10_Routing ==
    (Accessed /\ out1.sel # NoArr) =>
        CallNames(out1) =
            IF InTuple(Last(Split(out1.pat_idx)), Kinds)
            THEN ExpectedCalls(Last(Split(out1.pat_idx)))
            ELSE <<>>
====
